---- MODULE Spec2Model ----
(***************************************************************************)
(* Model of src/dictionary.py: the crawl loop of main, the record checks   *)
(* of parse_idiom and the three file writes of write_item.                 *)
(*                                                                         *)
(* Text is a sequence of one-character strings.  The characters stand for  *)
(* the classes the regular expressions of the source tell apart:           *)
(*   "c"  a CJK ideograph (a word character, \w)                           *)
(*   "p"  a punctuation mark (neither \w nor CJK nor "-")                  *)
(*   " "  a blank (space, tab, no-break space, zero-width space)           *)
(*   "\n" a line break                                                     *)
(*   "_"  the underscore (a word character)                                *)
(*   "b"  a bopomofo letter, "d" a letter of the definition text           *)
(***************************************************************************)
EXTENDS Integers, Sequences, FiniteSets, TLC

\* ---------------------------------------------------------------- bounds
\* Number of IDs of the progression that can hold a page or fail; every
\* ID fetched after that many fetches answers "not found".
MaxFetch == 3
\* Largest --max-misses value tried (the smallest is -1).
MaxMissArg == 2
\* Longest raw title cell.
MaxTitleLen == 3

\* ------------------------------------------------------ character classes
Blank == {" "}
WhiteSpace == {" ", "\n"}
WordChars == {"c", "b", "d", "_", "N", "A"}
BpmfChars == {"b"}

\* ------------------------------------------------------------ text utils
RECURSIVE DropWhile(_, _)
DropWhile(s, cls) ==
    IF s # <<>> /\ Head(s) \in cls THEN DropWhile(Tail(s), cls) ELSE s

RECURSIVE TakeWhile(_, _)
TakeWhile(s, cls) ==
    IF s # <<>> /\ Head(s) \in cls
    THEN <<Head(s)>> \o TakeWhile(Tail(s), cls)
    ELSE <<>>

Reverse(s) == [i \in 1..Len(s) |-> s[Len(s) + 1 - i]]

\* str.strip(): leading and trailing white space removed
strip(s) == Reverse(DropWhile(Reverse(DropWhile(s, WhiteSpace)), WhiteSpace))

\* str.strip("_")
strip_underscore(s) == Reverse(DropWhile(Reverse(DropWhile(s, {"_"})), {"_"}))

\* re.sub(r"[ \t\u00A0\u200B]+", " ", s)
RECURSIVE collapse_blanks(_)
collapse_blanks(s) ==
    IF s = <<>> THEN <<>>
    ELSE IF Head(s) \in Blank
         THEN <<" ">> \o collapse_blanks(DropWhile(s, Blank))
         ELSE <<Head(s)>> \o collapse_blanks(Tail(s))

\* index of the last line break of s, 0 when it has none
LastNewline(s) ==
    LET at == {i \in 1..Len(s) : s[i] = "\n"}
    IN  IF at = {} THEN 0 ELSE CHOOSE i \in at : \A j \in at : j <= i

\* re.sub(r"\s+\n", "\n", s): in each run of white space, everything up to
\* its last line break becomes one line break, when something precedes it
RECURSIVE space_before_newline(_)
space_before_newline(s) ==
    IF s = <<>> THEN <<>>
    ELSE IF Head(s) \in WhiteSpace
         THEN LET run  == TakeWhile(s, WhiteSpace)
                  rest == DropWhile(s, WhiteSpace)
                  last == LastNewline(run)
              IN  (IF last > 1
                   THEN <<"\n">> \o SubSeq(run, last + 1, Len(run))
                   ELSE run) \o space_before_newline(rest)
         ELSE <<Head(s)>> \o space_before_newline(Tail(s))

norm_space(s) ==
    IF s = <<>> THEN s
    ELSE strip(space_before_newline(collapse_blanks(s)))

strip_newlines(s) == SelectSeq(s, LAMBDA ch : ch # "\n")

\* white space between two bopomofo letters is removed
RECURSIVE condense_zhuyin(_)
condense_zhuyin(s) ==
    IF s = <<>> THEN <<>>
    ELSE LET rest == DropWhile(Tail(s), WhiteSpace)
         IN  IF /\ Head(s) \in BpmfChars
                /\ rest # Tail(s)
                /\ rest # <<>>
                /\ Head(rest) \in BpmfChars
             THEN <<Head(s)>> \o condense_zhuyin(rest)
             ELSE <<Head(s)>> \o condense_zhuyin(Tail(s))

\* text_in_td: the text of a table cell, "" when the row is missing
text_in_td(cell) == norm_space(cell)

\* ------------------------------------------------------------- the pages
\* What one GET can bring back: the request raises (network failure or an
\* HTTP error status), or a page with or without the #idiomTab table,
\* whose cells are the texts text_in_td reads from them.
TitleChars == {"c", "p", " "}
RawTitleCells == UNION {[1..n -> TitleChars] : n \in 0..MaxTitleLen}
TitleCells == {text_in_td(raw) : raw \in RawTitleCells}
BopomofoCells == {text_in_td(raw) : raw \in {<<>>, <<"b", "\n", "b">>}}
DefinitionCells == {text_in_td(raw) : raw \in {<<>>, <<"d">>}}

Entry(t, b, d) ==
    [status |-> "ok", table |-> TRUE, title |-> t, bopomofo |-> b, definition |-> d]
NoTable == [status |-> "ok", table |-> FALSE]
FetchFailed == [status |-> "raised"]
NoPage == [status |-> "none"]

Pages ==
    {FetchFailed, NoTable} \cup
    {Entry(t, b, d) : t \in TitleCells, b \in BopomofoCells, d \in DefinitionCells}

\* the pages of the long runs: one title, two contents
DriverPages ==
    {FetchFailed, NoTable} \cup
    {Entry(<<"c", "c">>, b, <<"d">>) : b \in BopomofoCells}

\* ------------------------------------------------------------ parse_idiom
\* faulty variant: nothing is removed from the title
title_clean_all(title) == strip(title)

\* re.sub(r'[^\w\u4e00-\u9fff]', '', title.strip())
title_clean(title) == SelectSeq(strip(title), LAMBDA ch : ch \in WordChars)

\* the least clean title length that is kept
MinTitleLen == 2

NotFound == [kind |-> "NotFound"]
Raised == [kind |-> "error"]

parse_idiom(id_value, page) ==
    IF page.status = "raised" THEN Raised
    ELSE IF ~page.table THEN NotFound
    ELSE LET title      == page.title
             bopomofo   == strip_newlines(condense_zhuyin(page.bopomofo))
             definition == page.definition
         IN  IF title = <<>> \/ strip(title) = <<>> THEN NotFound
             ELSE IF Len(title_clean(title)) < MinTitleLen THEN NotFound
             ELSE IF strip(bopomofo) = <<>> /\ strip(definition) = <<>> THEN NotFound
             ELSE [kind |-> "record",
                   data |-> [id |-> id_value, title |-> title,
                             bopomofo |-> bopomofo, definition |-> definition]]

\* -------------------------------------------------------------- write_item
\* [^\w\-CJK]: every character but the word characters and "-"
Chars == WordChars \cup {"p", " ", "\n", "-"}
SlugKeep == WordChars \cup {"-"}
SlugDrop == Chars \ SlugKeep

\* a run of characters of cls becomes one "_"
RECURSIVE runs_to_underscore(_, _)
runs_to_underscore(s, cls) ==
    IF s = <<>> THEN <<>>
    ELSE IF Head(s) \in cls
         THEN <<"_">> \o runs_to_underscore(DropWhile(s, cls), cls)
         ELSE <<Head(s)>> \o runs_to_underscore(Tail(s), cls)

safe_slug(s) ==
    IF s = <<>> THEN <<"N", "A">>
    ELSE LET s1 == strip(s)
             s2 == runs_to_underscore(s1, SlugDrop)
             s3 == runs_to_underscore(s2, {"_"})
             s4 == strip_underscore(s3)
         IN  IF s4 = <<>> THEN <<"N", "A">> ELSE s4

\* the lines of fulltext that the modelled fields fill
fulltext(data) == <<data.title, data.bopomofo, data.definition>>

\* open(path, "w") and write: the file holds the new content only
open_w(dir, path, content) == (path :> content) @@ dir
\* faulty variant: the corpus is opened with "w"
open_a_truncate(file, line) == <<line>>

\* open(path, "a") and write: one line more at the end
open_a(file, line) == Append(file, line)

\* Where write_item can raise: at makedirs or the first open (nothing
\* written), at the second open (the JSON file is written), at the third
\* open (the JSON and the text file are written).
Faults == {"makedirs", "open_txt", "open_jsonl"}

write_item(fs, data, fault) ==
    LET base == <<data.id, safe_slug(data.title)>>
        fs1  == [fs  EXCEPT !.json  = open_w(fs.json, base, data)]
        fs2  == [fs1 EXCEPT !.txt   = open_w(fs.txt, base, fulltext(data))]
        fs3  == [fs2 EXCEPT !.jsonl = open_a(fs.jsonl, data)]
    IN  CASE fault = "makedirs"   -> fs
          [] fault = "open_txt"   -> fs1
          [] fault = "open_jsonl" -> fs2
          [] OTHER                -> fs3

\* -------------------------------------------------------------------- main
VARIABLES
    start_id, step, max_misses,     \* args
    idx, consecutive_miss, ok_cnt, miss_cnt, err_cnt,
    pc,                             \* "loop" inside while True, "done" after break
    files,                          \* out_dir: json/, txt/ and moe_idioms.jsonl
    fetched,                        \* the GETs sent so far, with how each ended
    cur                             \* the page of the latest GET

vars == <<start_id, step, max_misses, idx, consecutive_miss, ok_cnt, miss_cnt,
          err_cnt, pc, files, fetched, cur>>

args == <<start_id, step, max_misses>>

StartIds == {-1, 4}
Steps == {-1, 0, 2}
MaxMissesArgs == -1..MaxMissArg

Init ==
    /\ start_id \in StartIds
    /\ step \in Steps
    /\ max_misses \in MaxMissesArgs
    /\ idx = start_id
    /\ consecutive_miss = 0
    /\ ok_cnt = 0
    /\ miss_cnt = 0
    /\ err_cnt = 0
    /\ pc = "loop"
    /\ files = [json |-> <<>>, txt |-> <<>>, jsonl |-> <<>>]
    /\ fetched = <<>>
    /\ cur = NoPage

Log(outcome) == Append(fetched, [id |-> idx, outcome |-> outcome])

\* faulty variant: the threshold must be exceeded
stop_test_gt(misses, limit) == misses > limit

\* faulty variant: the threshold must be hit exactly
stop_test_eq(misses, limit) == misses = limit

\* the stop test of the except NotFound branch
stop_test(misses, limit) == misses >= limit

\* The turns of while True.  Only the first cap IDs of the progression hold
\* an entry or fail; a later ID answers with a page without the table.

\* faulty variant: a success does not end the run of misses
Success_NoReset(page, cap) ==
    /\ pc = "loop"
    /\ Len(fetched) < cap
    /\ parse_idiom(idx, page).kind = "record"
    /\ files' = write_item(files, parse_idiom(idx, page).data, "none")
    /\ ok_cnt' = ok_cnt + 1
    /\ idx' = idx + step
    /\ fetched' = Log("ok")
    /\ cur' = page
    /\ UNCHANGED <<args, consecutive_miss, miss_cnt, err_cnt, pc>>

\* try: parse_idiom and write_item both return
Success(page, cap) ==
    /\ pc = "loop"
    /\ Len(fetched) < cap
    /\ parse_idiom(idx, page).kind = "record"
    /\ files' = write_item(files, parse_idiom(idx, page).data, "none")
    /\ ok_cnt' = ok_cnt + 1
    /\ consecutive_miss' = 0
    /\ idx' = idx + step
    /\ fetched' = Log("ok")
    /\ cur' = page
    /\ UNCHANGED <<args, miss_cnt, err_cnt, pc>>

\* except NotFound
Miss(page, cap) ==
    /\ pc = "loop"
    /\ Len(fetched) < cap \/ page = NoTable
    /\ parse_idiom(idx, page).kind = "NotFound"
    /\ miss_cnt' = miss_cnt + 1
    /\ consecutive_miss' = consecutive_miss + 1
    /\ fetched' = Log("NotFound")
    /\ cur' = page
    /\ IF stop_test(consecutive_miss', max_misses)
       THEN pc' = "done" /\ idx' = idx
       ELSE pc' = "loop" /\ idx' = idx + step
    /\ UNCHANGED <<args, ok_cnt, err_cnt, files>>

\* faulty variant: an error does not end the run of misses
OtherError_NoReset(page, fault, cap) ==
    /\ pc = "loop"
    /\ Len(fetched) < cap
    /\ \/ /\ parse_idiom(idx, page).kind = "error"
          /\ files' = files
       \/ /\ parse_idiom(idx, page).kind = "record"
          /\ files' = write_item(files, parse_idiom(idx, page).data, fault)
    /\ err_cnt' = err_cnt + 1
    /\ idx' = idx + step
    /\ fetched' = Log("error")
    /\ cur' = page
    /\ UNCHANGED <<args, consecutive_miss, ok_cnt, miss_cnt, pc>>

\* faulty variant: an error leaves the loop at the same ID
OtherError_NoAdvance(page, fault, cap) ==
    /\ pc = "loop"
    /\ Len(fetched) < cap
    /\ \/ /\ parse_idiom(idx, page).kind = "error"
          /\ files' = files
       \/ /\ parse_idiom(idx, page).kind = "record"
          /\ files' = write_item(files, parse_idiom(idx, page).data, fault)
    /\ err_cnt' = err_cnt + 1
    /\ consecutive_miss' = 0
    /\ fetched' = Log("error")
    /\ cur' = page
    /\ UNCHANGED <<args, idx, ok_cnt, miss_cnt, pc>>

\* except Exception: the GET raised, or write_item raised at fault
OtherError(page, fault, cap) ==
    /\ pc = "loop"
    /\ Len(fetched) < cap
    /\ \/ /\ parse_idiom(idx, page).kind = "error"
          /\ files' = files
       \/ /\ parse_idiom(idx, page).kind = "record"
          /\ files' = write_item(files, parse_idiom(idx, page).data, fault)
    /\ err_cnt' = err_cnt + 1
    /\ consecutive_miss' = 0
    /\ idx' = idx + step
    /\ fetched' = Log("error")
    /\ cur' = page
    /\ UNCHANGED <<args, ok_cnt, miss_cnt, pc>>

\* one turn of while True over the pages of `pages`
Turn(pages, cap) ==
    \E page \in pages :
        \/ Success(page, cap)
        \/ Miss(page, cap)
        \/ \E fault \in Faults : OtherError(page, fault, cap)

Next == Turn(DriverPages, MaxFetch)

Spec == Init /\ [][Next]_vars

\* the loop is sequential and every GET has a timeout: a turn that can be
\* taken is taken
SpecFair == Spec /\ WF_vars(Next)

\* the first GET brings back any page of Pages
NextParse == Turn(Pages, 1)
SpecParse == Init /\ [][NextParse]_vars

\* ------------------------------------------------------------ the history
Outcome(i) == fetched[i].outcome
Fetches == 1..Len(fetched)
WithOutcome(o) == {i \in Fetches : Outcome(i) = o}
Max(S) == CHOOSE x \in S : \A y \in S : y <= x

\* index of the last fetch that did not end in NotFound, 0 when none did
LastNonMiss ==
    LET other == {i \in Fetches : Outcome(i) # "NotFound"}
    IN  IF other = {} THEN 0 ELSE Max(other)

\* length of the run of NotFound outcomes the history ends with
TrailingMisses == Len(fetched) - LastNonMiss

\* a turn has been taken in this step
Turned == Len(fetched') = Len(fetched) + 1

\* ---------------------------------------------------------------- claims

\* C1: for max_misses >= 1 the loop has stopped exactly when the history
\* ends with max_misses NotFound outcomes in a row, and a run of max_misses
\* NotFound outcomes is never followed by another fetch.
C1_StopsAtThreshold ==
    max_misses >= 1 =>
        /\ (pc = "done") <=> (TrailingMisses >= max_misses)
        /\ \A i \in Fetches :
              (i >= max_misses /\ \A j \in (i - max_misses + 1)..i : Outcome(j) = "NotFound")
              => (i = Len(fetched) /\ pc = "done")

C1_Witness ==
    /\ pc = "done"
    /\ max_misses >= 2
    /\ Len(fetched) > max_misses
    /\ Outcome(1) = "NotFound"

\* C2: the k-th ID passed to parse_idiom is start_id + k*step (k from 0),
\* whatever the earlier outcomes were, and the ID the loop is about to pass
\* is the next one of the progression.
C2_FixedStride ==
    /\ \A k \in Fetches : fetched[k].id = start_id + (k - 1) * step
    /\ pc = "loop" => idx = start_id + Len(fetched) * step

C2_Witness ==
    /\ step = 2
    /\ Len(fetched) >= 3
    /\ WithOutcome("ok") # {}
    /\ WithOutcome("NotFound") # {}
    /\ WithOutcome("error") # {}

\* C3: the IDs with a JSON file, the IDs with a text file and the IDs with
\* a line of moe_idioms.jsonl are each the IDs counted in ok_cnt, and an ID
\* that ended in NotFound or in an error has none of the three.
JsonIds == {n[1] : n \in DOMAIN files.json}
TxtIds == {n[1] : n \in DOMAIN files.txt}
JsonlIds == {files.jsonl[i].id : i \in 1..Len(files.jsonl)}
OkIds == {fetched[i].id : i \in WithOutcome("ok")}
FailedIds == {fetched[i].id : i \in WithOutcome("NotFound") \cup WithOutcome("error")}

C3_AllThreeOrNone ==
    /\ JsonIds = OkIds
    /\ TxtIds = OkIds
    /\ JsonlIds = OkIds
    /\ FailedIds \cap (JsonIds \cup TxtIds \cup JsonlIds) = {}

\* C4: for every start_id and step no ID value is fetched twice in a run.
C4_FetchedOnce ==
    \A i, j \in Fetches : i # j => fetched[i].id # fetched[j].id

\* C5: a turn never removes or changes a line of moe_idioms.jsonl; a
\* write_item call that returns adds exactly one line, the entry written,
\* and leaves exactly one JSON file and one text file of that id and title,
\* holding that entry; a turn in which write_item does not return adds no
\* line.
JsonOf(fs, id, title) ==
    {n \in DOMAIN fs.json : fs.json[n].id = id /\ fs.json[n].title = title}
TxtOf(fs, id, title) ==
    {n \in DOMAIN fs.txt : n[1] = id /\ fs.txt[n][1] = title}

C6_Terminates ==
    /\ (max_misses >= 1 /\ step # 0) => <>(pc = "done")
    /\ []((max_misses >= 1 /\ step # 0 /\ pc = "done")
            => Len(fetched) - LastNonMiss = max_misses)

C6_Witness ==
    /\ pc = "done"
    /\ step # 0
    /\ max_misses >= 2
    /\ LastNonMiss = MaxFetch
    /\ Len(fetched) = MaxFetch + max_misses

\* C7: a turn that ends in an error other than NotFound adds 1 to err_cnt,
\* sets consecutive_miss to 0, leaves ok_cnt and miss_cnt alone and goes on
\* with the next ID; and when the loop has stopped the last max_misses
\* fetches all ended in NotFound.
C7_ErrorContinues ==
    /\ [][ (Turned /\ (cur'.status = "raised" \/ fetched'[Len(fetched')].outcome = "error"))
           => /\ err_cnt' = err_cnt + 1
              /\ consecutive_miss' = 0
              /\ ok_cnt' = ok_cnt
              /\ miss_cnt' = miss_cnt
              /\ pc' = "loop"
              /\ idx' = idx + step ]_vars
    /\ [](pc = "done" =>
            \A k \in 1..max_misses :
                /\ Len(fetched) >= k
                /\ Outcome(Len(fetched) + 1 - k) = "NotFound")

\* an error between two misses, and the loop stopped two misses later
C7_Witness ==
    /\ pc = "done"
    /\ max_misses = 2
    /\ Len(fetched) = 4
    /\ Outcome(1) = "NotFound"
    /\ Outcome(2) = "error"

\* C8: a page that was fetched ends in NotFound exactly when it has no
\* table, or its title is blank, or fewer than 2 word characters are left
\* of its title, or its bopomofo and its definition are both blank; such a
\* turn counts as a miss and writes no file; any other page yields the
\* record of its cells.
AllBlank(s) == \A i \in 1..Len(s) : s[i] \in WhiteSpace
WordCount(s) == Cardinality({i \in 1..Len(s) : s[i] \in WordChars})
Invalid(page) ==
    \/ ~page.table
    \/ AllBlank(page.title)
    \/ WordCount(page.title) < 2
    \/ AllBlank(page.bopomofo) /\ AllBlank(page.definition)

C8_NotFoundCases ==
    [][ (Turned /\ cur'.status = "ok") =>
          IF Invalid(cur')
          THEN /\ fetched'[Len(fetched')].outcome = "NotFound"
               /\ miss_cnt' = miss_cnt + 1
               /\ consecutive_miss' = consecutive_miss + 1
               /\ files' = files
          ELSE /\ fetched'[Len(fetched')].outcome \in {"ok", "error"}
               /\ miss_cnt' = miss_cnt
               /\ ok_cnt' = ok_cnt + 1 =>
                     files'.jsonl[Len(files'.jsonl)].title = cur'.title ]_vars

\* a title with punctuation that keeps one word character only
C8_Witness ==
    /\ cur.status = "ok"
    /\ cur.table
    /\ Len(cur.title) >= 2
    /\ WordCount(cur.title) = 1
    /\ ~AllBlank(cur.definition)
    /\ miss_cnt = 1
    /\ files.json = <<>>

\* C9: with max_misses <= 1 the first NotFound outcome stops the loop, and
\* the loop never stops at a turn that ended in a success or an error.
C9_StopsAsSoonAsMet ==
    /\ max_misses <= 1 =>
          \A i \in WithOutcome("NotFound") : i = Len(fetched) /\ pc = "done"
    /\ pc = "done" => (Len(fetched) >= 1 /\ Outcome(Len(fetched)) = "NotFound")

C9_Witness ==
    /\ pc = "done"
    /\ max_misses <= 0
    /\ Len(fetched) >= 3
    /\ Outcome(1) = "ok"
    /\ Outcome(2) = "error"

====
